---------------------------- MODULE Spec2Model ----------------------------
(***************************************************************************)
(* Model of the two GitHub Actions scripts of django-actions:              *)
(*                                                                         *)
(*   src/check-migrations/index.js  (specifications Spec and SpecParse)    *)
(*   src/dump-database/index.js     (specification SpecDump)               *)
(*                                                                         *)
(* Text is modelled as a sequence of one-character strings wherever the    *)
(* code looks inside it (trim, split, the plan regex), and as a sequence   *)
(* of opaque tokens where the code only concatenates it (subprocess        *)
(* output chunks, rendered markdown).  An optional value (undefined/null)  *)
(* is a sequence of length 0 or 1: None, Some(x).                          *)
(***************************************************************************)
EXTENDS Integers, Sequences, FiniteSets, TLC

None == <<>>
Some(x) == <<x>>

(***************************************************************************)
(* Bounds of the model.                                                    *)
(***************************************************************************)
\* longest "showmigrations --plan" output, in lines, given to the parser alone
MaxPlanLen == 2
\* longest plan, in lines, of a whole check-migrations run
MaxPlan == 2
\* most stdout chunks one subprocess of getMigrationOutput delivers
MaxChunks == 1
\* number of distinct file contents (dump versions) of dump-database
NContents == 2

(***************************************************************************)
(* String.prototype.trim / split and the plan regex.                       *)
(***************************************************************************)
\* \s of the regex and the characters trim() strips, within the model's alphabet
Whitespace == {" ", "\t", "\n", "\r"}

\* \w of the regex ([A-Za-z0-9_]), within the model's alphabet
WordChars == {"a", "b", "c", "d", "e", "m", "n", "X", "0", "1", "2", "_"}

RECURSIVE TrimLeft(_)
TrimLeft(s) ==
  IF s # <<>> /\ Head(s) \in Whitespace THEN TrimLeft(Tail(s)) ELSE s

RECURSIVE TrimRight(_)
TrimRight(s) ==
  IF s # <<>> /\ s[Len(s)] \in Whitespace
  THEN TrimRight(SubSeq(s, 1, Len(s) - 1))
  ELSE s

Trim(s) == TrimRight(TrimLeft(s))

\* s.split("\n"): the pieces between newlines; "" splits into [""]
RECURSIVE SplitFrom(_, _, _)
SplitFrom(s, cur, acc) ==
  IF s = <<>> THEN Append(acc, cur)
  ELSE IF Head(s) = "\n" THEN SplitFrom(Tail(s), <<>>, Append(acc, cur))
  ELSE SplitFrom(Tail(s), Append(cur, Head(s)), acc)

Split(s) == SplitFrom(s, <<>>, <<>>)

\* length of the longest prefix of s made of characters of class
RECURSIVE RunLen(_, _)
RunLen(s, class) ==
  IF s # <<>> /\ Head(s) \in class THEN 1 + RunLen(Tail(s), class) ELSE 0

Drop(s, n) == SubSeq(s, n + 1, Len(s))

\* line.match(/^\[(?<applied>[X ])\]\s+(?<appLabel>\w+)\.(?<migrationName>\w+)$/)
\* \s, \w and "." are pairwise disjoint, so the greedy runs are the only match.
MatchLine(line) ==
  LET noMatch == [matched |-> FALSE, applied |-> "", appLabel |-> <<>>,
                  migrationName |-> <<>>]
  IN IF Len(line) < 3 \/ line[1] # "[" \/ line[2] \notin {"X", " "} \/ line[3] # "]"
     THEN noMatch
     ELSE LET r1 == Drop(line, 3)
              ws == RunLen(r1, Whitespace)
              r2 == Drop(r1, ws)
              w1 == RunLen(r2, WordChars)
              r3 == Drop(r2, w1)
              r4 == IF r3 = <<>> THEN <<>> ELSE Tail(r3)
              w2 == RunLen(r4, WordChars)
          IN IF ws >= 1 /\ w1 >= 1 /\ r3 # <<>> /\ Head(r3) = "."
                /\ w2 >= 1 /\ w2 = Len(r4)
             THEN [matched |-> TRUE, applied |-> line[2],
                   appLabel |-> SubSeq(r2, 1, w1), migrationName |-> r4]
             ELSE noMatch

\* the message of the Error thrown for a line that does not match
LineError(line) == <<"Line ">> \o line \o <<" did not match regex">>

ShowmigrationsError == <<"Failed to run \"showmigrations --plan\"">>

FilterNotNull(s) == SelectSeq(s, LAMBDA l : l # None)

\* getUnappliedMigrations after exec.exec returned: result is the exit code, out
\* the captured stdout.  threw/error: the Error thrown; has/list: the returned pair.
getUnappliedMigrations(result, out) ==
  IF result # 0
  THEN [threw |-> TRUE, error |-> ShowmigrationsError, has |-> FALSE, list |-> <<>>]
  ELSE LET ls == Split(Trim(out))
           bad == {i \in 1..Len(ls) : ~MatchLine(ls[i]).matched}
       IN IF bad # {}
          THEN \* map() throws at the first line that does not match
               [threw |-> TRUE,
                error |-> LineError(ls[CHOOSE i \in bad : \A j \in bad : i <= j]),
                has |-> FALSE, list |-> <<>>]
          ELSE LET mapped == [i \in 1..Len(ls) |->
                                LET m == MatchLine(ls[i])
                                IN IF m.applied = " "
                                   THEN Some(<<m.appLabel, m.migrationName>>)
                                   ELSE None]
                   kept == FilterNotNull(mapped)
                   unapplied == [i \in 1..Len(kept) |-> kept[i][1]]
               IN [threw |-> FALSE, error |-> <<>>,
                   has |-> Len(unapplied) > 0, list |-> unapplied]

(***************************************************************************)
(* What "showmigrations --plan" prints: one line per migration of the      *)
(* plan, "[X]  app.name" or "[ ]  app.name".  The shapes other than "ok"   *)
(* are lines the regex is not written for.                                 *)
(***************************************************************************)
AppLabels == {<<"a">>, <<"b">>}
MigrationNames == {<<"m", "1">>}
Shapes == {"ok", "nodot", "nospace", "suffix"}

PlanEntries == [mark : {"X", " "}, app : AppLabels, name : MigrationNames,
                shape : Shapes]

RenderEntry(e) ==
  CASE e.shape = "ok" -> <<"[", e.mark, "]", " ", " ">> \o e.app \o <<".">> \o e.name
    [] e.shape = "nodot" -> <<"[", e.mark, "]", " ", " ">> \o e.app
    [] e.shape = "nospace" -> <<"[", e.mark, "]">> \o e.app \o <<".">> \o e.name
    [] e.shape = "suffix" -> <<"[", e.mark, "]", " ", " ">> \o e.app \o <<".">> \o e.name
                               \o <<" ", "(", "2", ")">>

RECURSIVE RenderPlan(_)
RenderPlan(plan) ==
  IF plan = <<>> THEN <<>>
  ELSE RenderEntry(Head(plan)) \o <<"\n">> \o RenderPlan(Tail(plan))

SeqsUpTo(S, n) == UNION {[1..k -> S] : k \in 0..n}

(***************************************************************************)
(* State.                                                                  *)
(***************************************************************************)
VARIABLES
  \* ---- check-migrations: run() and what it talks to
  pc,                      \* where run() is: the await it is suspended at
  locksInput,              \* the input "migrations-lock-command" ("" when not set)
  checkRun,                \* None, or Some(id of the check run created)
  github,                  \* GitHub's side: the status of each check run id
  updates,                 \* the checks.update requests issued, in order
  failed,                  \* the messages given to core.setFailed, in order
  commands,                \* the management commands spawned so far
  mmResult,                \* None, or Some(exit code of makemigrations)
  isMissingMigrations,
  makeMigrationsOutput,
  showResult,              \* None, or Some(exit code of showmigrations)
  plan,                    \* the plan showmigrations printed
  hasUnappliedMigrations,
  unappliedMigrations,
  calls,                   \* the getMigrationOutput calls started by map()
  unappliedMigrationDetails,
  \* ---- getUnappliedMigrations on its own
  ppc, pplan, presult, pstdout, pret,
  \* ---- dump-database: run() and what it talks to
  dpc,                     \* where run() is
  committed,               \* the file at output-path in HEAD (None: not tracked)
  worktree,                \* the file at output-path on disk (None: absent)
  stash,                   \* git's stash entries for the file, newest first
  remote,                  \* the file at output-path in the repository on GitHub
  appliedMigrations,       \* what applyMigrations returned
  dump,                    \* None, or Some(what pg_dump wrote)
  hasChanged,
  sha,
  content,
  uploads,                 \* the createOrUpdateFile requests issued, in order
  pulls,                   \* the number of pulls.create requests issued
  dfailed,                 \* the messages given to core.setFailed, in order
  steps,                   \* the steps started, in order
  thrown                   \* None, or Some(step that threw and the message)

cmVars == <<pc, locksInput, checkRun, github, updates, failed, commands, mmResult,
            isMissingMigrations, makeMigrationsOutput, showResult, plan,
            hasUnappliedMigrations, unappliedMigrations, calls,
            unappliedMigrationDetails>>
pVars == <<ppc, pplan, presult, pstdout, pret>>
ddVars == <<dpc, committed, worktree, stash, remote, appliedMigrations, dump, hasChanged, sha, content,
            uploads, pulls, dfailed, steps, thrown>>
vars == <<cmVars, pVars, ddVars>>

NoReturn == [threw |-> FALSE, error |-> <<>>, has |-> FALSE, list |-> <<>>]

cmIdle ==
  /\ pc = "idle" /\ locksInput = "" /\ checkRun = None /\ github = <<>>
  /\ updates = <<>> /\ failed = <<>> /\ commands = {} /\ mmResult = None
  /\ isMissingMigrations = FALSE /\ makeMigrationsOutput = <<>>
  /\ showResult = None /\ plan = <<>> /\ hasUnappliedMigrations = FALSE
  /\ unappliedMigrations = <<>> /\ calls = <<>> /\ unappliedMigrationDetails = <<>>

pIdle ==
  /\ ppc = "idle" /\ pplan = <<>> /\ presult = 0 /\ pstdout = <<>> /\ pret = NoReturn

ddIdle ==
  /\ dpc = "idle" /\ committed = None /\ worktree = None /\ stash = <<>>
  /\ remote = None /\ appliedMigrations = <<>> /\ dump = None
  /\ hasChanged = FALSE /\ sha = None
  /\ content = <<>> /\ uploads = <<>> /\ pulls = 0 /\ dfailed = <<>>
  /\ steps = <<>> /\ thrown = None

(***************************************************************************)
(* SpecParse: getUnappliedMigrations applied to every plan of at most      *)
(* MaxPlanLen lines.                                                       *)
(***************************************************************************)
InitParse ==
  /\ cmIdle /\ ddIdle
  /\ ppc = "exec"
  /\ pplan \in SeqsUpTo(PlanEntries, MaxPlanLen)
  /\ presult = 0 /\ pstdout = <<>> /\ pret = NoReturn

\* exec.exec resolves: the listener has appended all of stdout
P_ShowmigrationsExit(code) ==
  /\ ppc = "exec"
  /\ presult' = code
  /\ pstdout' = RenderPlan(pplan)
  /\ ppc' = "parse"
  /\ UNCHANGED <<pplan, pret, cmVars, ddVars>>

P_Return ==
  /\ ppc = "parse"
  /\ pret' = getUnappliedMigrations(presult, pstdout)
  /\ ppc' = "done"
  /\ UNCHANGED <<pplan, presult, pstdout, cmVars, ddVars>>

NextParse ==
  \/ \E code \in {0, 1} : P_ShowmigrationsExit(code)
  \/ P_Return

SpecParse == InitParse /\ [][NextParse]_vars

(***************************************************************************)
(* check-migrations: values shared by the actions of run().                *)
(***************************************************************************)
CheckRunIds == {101, 102}
ExitCodes == {0, 1}
LockInputs == {"", "pglocks"}

\* core.getInput("migrations-lock-command") || "migrationlocks"
migrationLocksCommand == IF locksInput = "" THEN "migrationlocks" ELSE locksInput

\* what makemigrations --dry-run --check prints: a line that says there is nothing
\* to do (exit code 0), or the migrations it would write (exit code 1)
MakemigrationsOutput(code) == IF code = 0 THEN <<"n", "\n">> ELSE <<" ", "m", "\n">>

\* The plans of a whole run: the first k migrations of a project whose migrations
\* are a.m1, b.m1, c.m1, ... in plan order, each applied or not; a squashed
\* migration is printed with a suffix, "[X]  a.m1 (2 squashed migrations)".
AppOrder == <<"a", "b", "c", "d", "e">>

RunPlans(n) ==
  UNION { { [i \in 1..k |-> [mark |-> marks[i], app |-> <<AppOrder[i]>>,
                             name |-> <<"m", "1">>, shape |-> shapes[i]]] :
              marks \in [1..k -> {"X", " "}], shapes \in [1..k -> {"ok", "suffix"}] } :
          k \in 0..n }

\* the message of an error thrown by an octokit request
ApiError == <<"HttpError">>
SqlmigrateError == <<"Failed to run sqlmigrate">>

\* A token of captured output or of rendered markdown: a literal piece of text, or
\* a chunk of stdout of the n-th data event of command cmd run with args (app
\* label, migration name) by the call-th getMigrationOutput call.
Lit(s) == [cmd |-> "text", call |-> 0, args |-> <<s>>, n |-> 0]
Chunk(cmd, i, mig, k) == [cmd |-> cmd, call |-> i, args |-> mig, n |-> k]
LitSeq(chars) == [j \in 1..Len(chars) |-> Lit(chars[j])]
NL == Lit("\n")

\* The code-fence lines of the markdown (three backquotes, with and without "sql")
Fence == Lit("(fence)")
FenceSql == Lit("(fence)sql")

\* Array.prototype.join
RECURSIVE Join(_, _)
Join(parts, sep) ==
  IF parts = <<>> THEN <<>>
  ELSE IF Len(parts) = 1 THEN parts[1]
  ELSE parts[1] \o <<sep>> \o Join(Tail(parts), sep)

\* Mutant of checkMissingMigrations: the exit code compared the wrong way round.
checkMissingMigrationsInverted(result, out) == <<result = 0, Trim(out)>>

\* checkMissingMigrations after exec.exec returned
checkMissingMigrations(result, out) == <<result # 0, Trim(out)>>

renderDetails(title, body) ==
  <<Lit("<details><summary>"), Lit(title), Lit("</summary>"), NL, NL>>
    \o body \o <<NL, NL, Lit("</details>")>>

\* a string is truthy when it is neither null nor empty
Truthy(opt) == opt # None /\ opt[1] # <<>>

\* the callback of unappliedMigrations.map in renderDetailsMarkdown
renderMigrationSummary(d) ==
  Join(<< <<Lit("#### ")>> \o LitSeq(d.appLabel) \o <<Lit(".")>>
             \o LitSeq(d.migrationName),
          renderDetails("SQL", Join(<< <<FenceSql>>, d.sql, <<Fence>> >>, NL)),
          IF Truthy(d.locks)
          THEN renderDetails("Locks",
                             Join(<< <<Fence>>, d.locks[1], <<Fence>> >>, NL))
          ELSE <<>> >>, NL)

renderDetailsMarkdown(isMissing, mmOutput, hasUnapplied, details) ==
  LET summaries == [i \in 1..Len(details) |-> renderMigrationSummary(details[i])]
      rows == << IF isMissing THEN Some(<<Lit("## Missing migrations")>>) ELSE None,
                 IF isMissing THEN Some(<<Fence>>) ELSE None,
                 IF isMissing THEN Some(LitSeq(mmOutput)) ELSE None,
                 IF isMissing THEN Some(<<Fence>>) ELSE None,
                 IF hasUnapplied THEN Some(<<Lit("## New migrations")>>) ELSE None,
                 IF hasUnapplied THEN Some(<<>>) ELSE None,
                 IF hasUnapplied THEN Some(Join(summaries, NL)) ELSE None >>
      kept == FilterNotNull(rows)
  IN Join([i \in 1..Len(kept) |-> kept[i][1]], NL)

\* the summary of the check run on the path without error
summaryOf(isMissing, hasUnapplied, unapplied) ==
  IF isMissing /\ hasUnapplied
  THEN <<"Missing migrations and ", ToString(Len(unapplied)), " new migrations">>
  ELSE IF isMissing THEN <<"Missing migrations">>
  ELSE <<ToString(Len(unapplied)), " new migrations">>

conclusionOf(isMissing) == IF isMissing THEN "failure" ELSE "success"

\* Mutant of BufferOf: one stdout buffer declared outside the function and shared
\* by every call.
SharedBuffer(i) == 1

\* the closure that owns the stdout buffer of the i-th getMigrationOutput call:
\* "let stdout" is declared inside the function, one per call
BufferOf(i) == i

\* the check_run_id of an update request
updateTarget == checkRun[1]

\* the checks.update request of the try block
successUpdate(isMissing, mmOutput, hasUnapplied, unapplied, details) ==
  [check_run_id |-> updateTarget,
   conclusion |-> conclusionOf(isMissing),
   summary |-> summaryOf(isMissing, hasUnapplied, unapplied),
   text |-> Some(renderDetailsMarkdown(isMissing, mmOutput, hasUnapplied, details)),
   status |-> "sent"]

\* the checks.update request of the catch block
failureUpdate ==
  [check_run_id |-> updateTarget,
   conclusion |-> "failure",
   summary |-> <<"Failed to check migrations.">>,
   text |-> None,
   status |-> "sent"]

\* Mutant of Catch: the catch block reports the error and returns without
\* updating the check run.
CatchWithoutUpdate(msgs, reqs, message) ==
  /\ failed' = Append(msgs, message)
  /\ updates' = reqs
  /\ pc' = "done"

\* Mutant of Catch: the catch block updates the check run and does not call
\* core.setFailed.
CatchWithoutSetFailed(msgs, reqs, message) ==
  /\ failed' = msgs
  /\ updates' = Append(reqs, failureUpdate)
  /\ pc' = "catchUpdating"

\* the catch block of run(), up to its await: setFailed, then the request
Catch(msgs, reqs, message) ==
  /\ failed' = Append(msgs, message)
  /\ updates' = Append(reqs, failureUpdate)
  /\ pc' = "catchUpdating"

Settle(reqs, st) == [reqs EXCEPT ![Len(reqs)].status = st]

(***************************************************************************)
(* check-migrations: run().  One action is one turn of the event loop:     *)
(* the continuation of run() or of a getMigrationOutput call from the      *)
(* event that resumes it up to its next await.                             *)
(***************************************************************************)
Init ==
  /\ pIdle /\ ddIdle
  /\ pc = "start"
  /\ locksInput \in LockInputs
  /\ checkRun = None
  /\ github = [id \in CheckRunIds |-> "none"]
  /\ updates = <<>>
  /\ failed = <<>>
  /\ commands = {}
  /\ mmResult = None
  /\ isMissingMigrations = FALSE
  /\ makeMigrationsOutput = <<>>
  /\ showResult = None
  /\ plan = <<>>
  /\ hasUnappliedMigrations = FALSE
  /\ unappliedMigrations = <<>>
  /\ calls = <<>>
  /\ unappliedMigrationDetails = <<>>

Command(name, i) == [name |-> name, call |-> i]

NewCall == [pc |-> "sqlmigrate", stdout |-> <<>>, emitted |-> 0, sql |-> <<>>,
            locks |-> None, lockResult |-> None]

\* what Promise.all resolves to: the value of the i-th promise at position i
DetailsOf(cs, unapplied) ==
  [i \in 1..Len(unapplied) |->
     [appLabel |-> unapplied[i][1], migrationName |-> unapplied[i][2],
      sql |-> cs[i].sql, locks |-> cs[i].locks]]

\* Promise.all is fulfilled once every call but i has returned and i returns now
AllOthersDone(i) == \A j \in DOMAIN calls : j # i => calls[j].pc = "done"

\* run() starts: reads its inputs and sends checks.create
CM_Start ==
  /\ pc = "start"
  /\ pc' = "creating"
  /\ UNCHANGED <<locksInput, checkRun, github, updates, failed, commands, mmResult,
                 isMissingMigrations, makeMigrationsOutput, showResult, plan,
                 hasUnappliedMigrations, unappliedMigrations, calls,
                 unappliedMigrationDetails, pVars, ddVars>>

\* checks.create answers: the check run exists, in_progress; makemigrations is spawned
CM_CreateOk(id) ==
  /\ pc = "creating"
  /\ checkRun' = Some(id)
  /\ github' = [github EXCEPT ![id] = "in_progress"]
  /\ commands' = commands \cup {Command("makemigrations", 0)}
  /\ pc' = "makemigrations"
  /\ UNCHANGED <<locksInput, updates, failed, mmResult, isMissingMigrations,
                 makeMigrationsOutput, showResult, plan, hasUnappliedMigrations,
                 unappliedMigrations, calls, unappliedMigrationDetails, pVars, ddVars>>

\* checks.create throws: setFailed and return
CM_CreateFail ==
  /\ pc = "creating"
  /\ failed' = Append(failed, ApiError)
  /\ pc' = "done"
  /\ UNCHANGED <<locksInput, checkRun, github, updates, commands, mmResult,
                 isMissingMigrations, makeMigrationsOutput, showResult, plan,
                 hasUnappliedMigrations, unappliedMigrations, calls,
                 unappliedMigrationDetails, pVars, ddVars>>

\* makemigrations exits: checkMissingMigrations returns, showmigrations is spawned
CM_MakemigrationsExit(code) ==
  /\ pc = "makemigrations"
  /\ mmResult' = Some(code)
  /\ isMissingMigrations' = checkMissingMigrations(code, MakemigrationsOutput(code))[1]
  /\ makeMigrationsOutput' = checkMissingMigrations(code, MakemigrationsOutput(code))[2]
  /\ commands' = commands \cup {Command("showmigrations", 0)}
  /\ pc' = "showmigrations"
  /\ UNCHANGED <<locksInput, checkRun, github, updates, failed, showResult, plan,
                 hasUnappliedMigrations, unappliedMigrations, calls,
                 unappliedMigrationDetails, pVars, ddVars>>

\* showmigrations exits: getUnappliedMigrations throws or returns; map() starts one
\* getMigrationOutput per unapplied migration, each running up to its first await
\* (sqlmigrate spawned); Promise.all of no promise is fulfilled at once.
CM_ShowmigrationsExit(code, p) ==
  /\ pc = "showmigrations"
  /\ showResult' = Some(code)
  /\ plan' = p
  /\ LET r == getUnappliedMigrations(code, RenderPlan(p))
     IN IF r.threw
        THEN /\ Catch(failed, updates, r.error)
             /\ UNCHANGED <<hasUnappliedMigrations, unappliedMigrations, calls,
                            commands, unappliedMigrationDetails>>
        ELSE /\ hasUnappliedMigrations' = r.has
             /\ unappliedMigrations' = r.list
             /\ calls' = [i \in 1..Len(r.list) |-> NewCall]
             /\ commands' = commands \cup {Command("sqlmigrate", i) : i \in 1..Len(r.list)}
             /\ IF r.list = <<>>
                THEN /\ unappliedMigrationDetails' = <<>>
                     /\ updates' = Append(updates,
                            successUpdate(isMissingMigrations, makeMigrationsOutput,
                                          r.has, r.list, <<>>))
                     /\ pc' = "updating"
                ELSE /\ pc' = "awaitAll"
                     /\ UNCHANGED <<updates, unappliedMigrationDetails>>
             /\ UNCHANGED failed
  /\ UNCHANGED <<locksInput, checkRun, github, mmResult, isMissingMigrations,
                 makeMigrationsOutput, pVars, ddVars>>

\* a data event of the sqlmigrate process of call i: the listener appends to stdout
CM_SqlData(i) ==
  /\ i \in DOMAIN calls
  /\ calls[i].pc = "sqlmigrate"
  /\ calls[i].emitted < MaxChunks
  /\ calls' = LET c1 == [calls EXCEPT ![BufferOf(i)].stdout =
                          Append(@, Chunk("sqlmigrate", i, unappliedMigrations[i],
                                          calls[i].emitted + 1))]
              IN [c1 EXCEPT ![i].emitted = @ + 1]
  /\ UNCHANGED <<pc, locksInput, checkRun, github, updates, failed, commands, mmResult,
                 isMissingMigrations, makeMigrationsOutput, showResult, plan,
                 hasUnappliedMigrations, unappliedMigrations,
                 unappliedMigrationDetails, pVars, ddVars>>

\* the sqlmigrate process of call i exits.  Non-zero: the call throws; the first
\* rejection rejects Promise.all and run() goes to its catch block at once, the
\* other calls still running.  Zero: sql = stdout, stdout = "", the lock command
\* is spawned.
CM_SqlExit(i, code) ==
  /\ i \in DOMAIN calls
  /\ calls[i].pc = "sqlmigrate"
  /\ IF code # 0
     THEN /\ calls' = [calls EXCEPT ![i].pc = "failed", ![i].stdout = <<>>,
                                    ![i].emitted = 0]
          /\ IF pc = "awaitAll"
             THEN Catch(failed, updates, SqlmigrateError)
             ELSE UNCHANGED <<pc, failed, updates>>
          /\ UNCHANGED commands
     ELSE /\ calls' = LET c1 == [calls EXCEPT ![i].sql = calls[BufferOf(i)].stdout,
                                              ![i].pc = "locks",
                                              ![i].emitted = 0]
                      IN [c1 EXCEPT ![BufferOf(i)].stdout = <<>>]
          /\ commands' = commands \cup {Command(migrationLocksCommand, i)}
          /\ UNCHANGED <<pc, failed, updates>>
  /\ UNCHANGED <<locksInput, checkRun, github, mmResult, isMissingMigrations,
                 makeMigrationsOutput, showResult, plan, hasUnappliedMigrations,
                 unappliedMigrations, unappliedMigrationDetails, pVars, ddVars>>

\* a data event of the lock command of call i
CM_LockData(i) ==
  /\ i \in DOMAIN calls
  /\ calls[i].pc = "locks"
  /\ calls[i].emitted < MaxChunks
  /\ calls' = LET c1 == [calls EXCEPT ![BufferOf(i)].stdout =
                          Append(@, Chunk(migrationLocksCommand, i,
                                          unappliedMigrations[i],
                                          calls[i].emitted + 1))]
              IN [c1 EXCEPT ![i].emitted = @ + 1]
  /\ UNCHANGED <<pc, locksInput, checkRun, github, updates, failed, commands, mmResult,
                 isMissingMigrations, makeMigrationsOutput, showResult, plan,
                 hasUnappliedMigrations, unappliedMigrations,
                 unappliedMigrationDetails, pVars, ddVars>>

\* Mutant of locksOf: the exit code of the lock command is not looked at.
locksIgnoringExitCode(code, out) == Some(out)

\* the value of locks when the lock command has exited with code
locksOf(code, out) == IF code = 0 THEN Some(out) ELSE None

\* the lock command of call i exits: the call returns its detail.  When it is the
\* last one, Promise.all is fulfilled and run() renders the details and sends the
\* checks.update of the try block.
CM_LockExit(i, code) ==
  /\ i \in DOMAIN calls
  /\ calls[i].pc = "locks"
  /\ LET c1 == [calls EXCEPT ![i].locks = locksOf(code, calls[BufferOf(i)].stdout),
                             ![i].lockResult = Some(code),
                             ![i].pc = "done",
                             ![i].emitted = 0]
         c2 == [c1 EXCEPT ![i].stdout = <<>>]
     IN /\ calls' = c2
        /\ IF pc = "awaitAll" /\ AllOthersDone(i)
           THEN /\ unappliedMigrationDetails' = DetailsOf(c2, unappliedMigrations)
                /\ updates' = Append(updates,
                       successUpdate(isMissingMigrations, makeMigrationsOutput,
                                     hasUnappliedMigrations, unappliedMigrations,
                                     DetailsOf(c2, unappliedMigrations)))
                /\ pc' = "updating"
           ELSE UNCHANGED <<pc, updates, unappliedMigrationDetails>>
  /\ UNCHANGED <<locksInput, checkRun, github, failed, commands, mmResult,
                 isMissingMigrations, makeMigrationsOutput, showResult, plan,
                 hasUnappliedMigrations, unappliedMigrations, pVars, ddVars>>

\* GitHub's side of an accepted checks.update
applyUpdate(gh, req) == [gh EXCEPT ![req.check_run_id] = req.conclusion]

\* the checks.update of the try block answers: run() logs it and returns
CM_UpdateOk ==
  /\ pc = "updating"
  /\ github' = applyUpdate(github, updates[Len(updates)])
  /\ updates' = Settle(updates, "ok")
  /\ pc' = "done"
  /\ UNCHANGED <<locksInput, checkRun, failed, commands, mmResult,
                 isMissingMigrations, makeMigrationsOutput, showResult, plan,
                 hasUnappliedMigrations, unappliedMigrations, calls,
                 unappliedMigrationDetails, pVars, ddVars>>

\* the checks.update of the try block throws: the catch block runs
CM_UpdateFail ==
  /\ pc = "updating"
  /\ Catch(failed, Settle(updates, "failed"), ApiError)
  /\ UNCHANGED <<locksInput, checkRun, github, commands, mmResult,
                 isMissingMigrations, makeMigrationsOutput, showResult, plan,
                 hasUnappliedMigrations, unappliedMigrations, calls,
                 unappliedMigrationDetails, pVars, ddVars>>

\* the checks.update of the catch block answers: run() returns
CM_CatchUpdateOk ==
  /\ pc = "catchUpdating"
  /\ github' = applyUpdate(github, updates[Len(updates)])
  /\ updates' = Settle(updates, "ok")
  /\ pc' = "done"
  /\ UNCHANGED <<locksInput, checkRun, failed, commands, mmResult,
                 isMissingMigrations, makeMigrationsOutput, showResult, plan,
                 hasUnappliedMigrations, unappliedMigrations, calls,
                 unappliedMigrationDetails, pVars, ddVars>>

\* the checks.update of the catch block throws: nothing catches it, the promise
\* of run() is rejected
CM_CatchUpdateFail ==
  /\ pc = "catchUpdating"
  /\ updates' = Settle(updates, "failed")
  /\ pc' = "escaped"
  /\ UNCHANGED <<locksInput, checkRun, github, failed, commands, mmResult,
                 isMissingMigrations, makeMigrationsOutput, showResult, plan,
                 hasUnappliedMigrations, unappliedMigrations, calls,
                 unappliedMigrationDetails, pVars, ddVars>>

Next ==
  \/ CM_Start
  \/ \E id \in CheckRunIds : CM_CreateOk(id)
  \/ CM_CreateFail
  \/ \E code \in ExitCodes : CM_MakemigrationsExit(code)
  \/ \E code \in ExitCodes :
       \E p \in (IF code = 0 THEN RunPlans(MaxPlan) ELSE {<<>>}) :
         CM_ShowmigrationsExit(code, p)
  \/ \E i \in 1..MaxPlan : CM_SqlData(i)
  \/ \E i \in 1..MaxPlan, code \in ExitCodes : CM_SqlExit(i, code)
  \/ \E i \in 1..MaxPlan : CM_LockData(i)
  \/ \E i \in 1..MaxPlan, code \in ExitCodes : CM_LockExit(i, code)
  \/ CM_UpdateOk
  \/ CM_UpdateFail
  \/ CM_CatchUpdateOk
  \/ CM_CatchUpdateFail

Spec == Init /\ [][Next]_vars

(***************************************************************************)
(* Properties of check-migrations.                                         *)
(***************************************************************************)
Count(s, tok) == Cardinality({k \in DOMAIN s : s[k] = tok})
Range(s) == {s[k] : k \in DOMAIN s}

\* what the plan says, read off the plan itself
Malformed(p) == \E k \in DOMAIN p : p[k].shape # "ok"
ExpectedUnapplied(p) ==
  LET sel == SelectSeq(p, LAMBDA e : e.mark = " ")
  IN [k \in 1..Len(sel) |-> <<sel[k].app, sel[k].name>>]
FirstMalformed(p) ==
  p[CHOOSE k \in DOMAIN p : p[k].shape # "ok" /\ \A j \in 1..(k - 1) : p[j].shape = "ok"]

Created == checkRun # None
Ended == pc \in {"done", "escaped"}
\* run() reached the checks.update of its try block
TryUpdateIssued == updates # <<>> /\ updates[1].text # None
SomeSqlmigrateFailed == \E i \in DOMAIN calls : calls[i].pc = "failed"
Finished(i) == calls[i].pc \in {"done", "failed"}

\* C3 as stated: once checks.create has succeeded, every path issues a
\* checks.update on the id checks.create returned, with conclusion success or
\* failure; when run() has ended the check run is not in_progress; at most one
\* update is accepted.
C3_Original ==
  Created =>
    /\ \A k \in DOMAIN updates :
         /\ updates[k].check_run_id = checkRun[1]
         /\ updates[k].conclusion \in {"success", "failure"}
    /\ Ended => updates # <<>> /\ github[checkRun[1]] \in {"success", "failure"}
    /\ Cardinality({k \in DOMAIN updates : updates[k].status = "ok"}) <= 1

\* C3 as amended: once checks.create has succeeded, every checks.update is issued
\* on the id checks.create returned, with conclusion success or failure, and no
\* other check run is touched; when run() has ended, at least one such update was
\* issued; at most one update is accepted; when run() has returned, the check run
\* has the conclusion of the accepted update.  The check run is left in_progress
\* only when the checks.update request of the catch block is itself rejected: the
\* error then escapes run().
C3_CheckRunConcluded ==
  /\ ~Created => updates = <<>> /\ \A id \in CheckRunIds : github[id] = "none"
  /\ Created =>
       /\ \A k \in DOMAIN updates :
            /\ updates[k].check_run_id = checkRun[1]
            /\ updates[k].conclusion \in {"success", "failure"}
       /\ \A id \in CheckRunIds \ {checkRun[1]} : github[id] = "none"
       /\ Ended => updates # <<>>
       /\ Cardinality({k \in DOMAIN updates : updates[k].status = "ok"}) <= 1
       /\ pc = "done" =>
            /\ updates[Len(updates)].status = "ok"
            /\ github[checkRun[1]] = updates[Len(updates)].conclusion
            /\ github[checkRun[1]] \in {"success", "failure"}
       /\ github[checkRun[1]] = "in_progress" /\ Ended =>
            /\ pc = "escaped"
            /\ updates[Len(updates)].status = "failed"

\* C3 witness: the update of the try block was rejected, the one of the catch block
\* accepted; run() has returned with the check run concluded.
C3_Witness ==
  /\ pc = "done" /\ Created /\ Len(updates) = 2
  /\ updates[1].status = "failed" /\ updates[2].status = "ok"
  /\ github[checkRun[1]] = "failure"

\* the request the catch block sends, as the claim states it
IsFailureReport(req) ==
  /\ req.check_run_id = checkRun[1]
  /\ req.conclusion = "failure"
  /\ req.summary = <<"Failed to check migrations.">>
  /\ req.text = None

\* C4: after the check run was created, a non-zero exit of showmigrations, a line
\* that does not match the regex, or a non-zero exit of sqlmigrate for any
\* unapplied migration leads to core.setFailed with that error's message and to a
\* checks.update with conclusion failure and summary "Failed to check
\* migrations.", which, once accepted, leaves the check run failed.  When
\* checks.create fails, setFailed is called and no management command and no
\* checks.update is executed.
C4_FailureReported ==
  /\ (pc = "done" /\ ~Created) =>
       /\ failed = <<ApiError>> /\ commands = {} /\ updates = <<>>
  /\ (Created /\ showResult = Some(1)) =>
       /\ failed = <<ShowmigrationsError>>
       /\ IsFailureReport(updates[Len(updates)])
  /\ (Created /\ showResult = Some(0) /\ Malformed(plan)) =>
       /\ failed = <<LineError(RenderEntry(FirstMalformed(plan)))>>
       /\ IsFailureReport(updates[Len(updates)])
  /\ (Created /\ showResult = Some(0) /\ plan = <<>>) =>
       \* the one line of an empty output is the empty line
       /\ failed = <<LineError(<<>>)>>
       /\ IsFailureReport(updates[Len(updates)])
  /\ (Created /\ SomeSqlmigrateFailed) =>
       /\ failed = <<SqlmigrateError>>
       /\ IsFailureReport(updates[Len(updates)])
  /\ (Created /\ failed # <<>> /\ updates # <<>>
        /\ updates[Len(updates)].status = "ok") =>
       github[checkRun[1]] = "failure"
  /\ (Created /\ failed # <<>>) => updates # <<>>

\* C4 witness: sqlmigrate failed for the second unapplied migration while the
\* first call had already returned; the failure was reported.
C4_Witness ==
  /\ pc = "done" /\ Created /\ Len(calls) = 2
  /\ calls[1].pc = "done" /\ calls[2].pc = "failed"
  /\ github[checkRun[1]] = "failure"

ExpectedSummary(missing, n) ==
  IF missing /\ n > 0
  THEN <<"Missing migrations and ", ToString(n), " new migrations">>
  ELSE IF missing THEN <<"Missing migrations">>
  ELSE <<ToString(n), " new migrations">>

\* C5: on the path without error the conclusion is failure iff makemigrations
\* exited non-zero; unapplied migrations alone yield success; setFailed is not
\* called; the summary is "Missing migrations and N new migrations", "Missing
\* migrations" or "N new migrations", N the number of unapplied migrations.
C5_ConclusionAndSummary ==
  TryUpdateIssued =>
    LET n == Len(ExpectedUnapplied(plan))
        missing == mmResult[1] # 0
    IN /\ (updates[1].conclusion = "failure") <=> missing
       /\ updates[1].conclusion \in {"success", "failure"}
       /\ updates[1].summary = ExpectedSummary(missing, n)
       /\ updates[1].status \in {"sent", "ok"} => failed = <<>>
       /\ updates[1].status = "ok" => github[checkRun[1]] = updates[1].conclusion

\* C5 witness: no missing migration, two unapplied ones: success.
C5_Witness ==
  /\ pc = "done" /\ TryUpdateIssued /\ updates[1].status = "ok"
  /\ mmResult = Some(0) /\ Len(unappliedMigrations) = 2
  /\ github[checkRun[1]] = "success"
  /\ updates[1].summary = <<"2", " new migrations">>

\* every chunk of s is stdout of command cmd run for the i-th unapplied migration
OwnOutput(s, cmd, i) ==
  \A k \in DOMAIN s :
    /\ s[k].cmd = cmd /\ s[k].call = i
    /\ s[k].args = ExpectedUnapplied(plan)[i]

Isolated ==
  /\ \A i \in DOMAIN calls :
       /\ OwnOutput(calls[i].sql, "sqlmigrate", i)
       /\ calls[i].locks # None => OwnOutput(calls[i].locks[1], migrationLocksCommand, i)
  /\ \A i \in DOMAIN unappliedMigrationDetails :
       LET d == unappliedMigrationDetails[i]
       IN /\ <<d.appLabel, d.migrationName>> = ExpectedUnapplied(plan)[i]
          /\ OwnOutput(d.sql, "sqlmigrate", i)
          /\ d.locks # None => OwnOutput(d.locks[1], migrationLocksCommand, i)
  /\ TryUpdateIssued =>
       Len(unappliedMigrationDetails) = Len(ExpectedUnapplied(plan))

\* C7 as stated: isolation and order of the details, and no checks.update before
\* every getMigrationOutput call has finished.
C7_Original ==
  /\ Isolated
  /\ updates # <<>> => \A i \in DOMAIN calls : Finished(i)

\* C7 as amended: isolation and order of the details under every interleaving; the
\* checks.update of the try block (the one that carries the details) is issued
\* only after every call has returned; the checks.update of the catch block is
\* issued while calls are still running only when the sqlmigrate of another call
\* has failed (Promise.all rejects at the first rejection).
C7_Amended ==
  /\ Isolated
  /\ \A k \in DOMAIN updates :
       updates[k].text # None => \A i \in DOMAIN calls : calls[i].pc = "done"
  /\ (updates # <<>> /\ \E i \in DOMAIN calls : ~Finished(i)) =>
       /\ SomeSqlmigrateFailed
       /\ updates[1].text = None

\* C7 witness: two calls ran as far as their lock commands together, each with
\* output of both of its commands, and Promise.all was fulfilled.
C7_Witness ==
  /\ TryUpdateIssued /\ Len(unappliedMigrationDetails) = 2
  /\ \A i \in 1..2 :
       /\ unappliedMigrationDetails[i].sql # <<>>
       /\ Truthy(unappliedMigrationDetails[i].locks)

\* C8: a lock command that exits non-zero leaves locks null for its migration; the
\* markdown then has the SQL block of every unapplied migration and a Locks block
\* exactly for the migrations whose locks text is not empty, with no output of a
\* failed lock command in it; the conclusion and setFailed do not depend on the
\* lock commands: a run fails in the fan-out only through a failing sqlmigrate.
C8_LocksOptional ==
  /\ \A i \in DOMAIN calls :
       calls[i].lockResult = Some(1) => calls[i].locks = None /\ calls[i].pc = "done"
  /\ TryUpdateIssued =>
       LET t == updates[1].text[1]
       IN /\ Count(t, Lit("SQL")) = Len(ExpectedUnapplied(plan))
          /\ Count(t, Lit("Locks")) =
               Cardinality({i \in DOMAIN calls : Truthy(calls[i].locks)})
          /\ \A i \in DOMAIN calls :
               /\ \A k \in DOMAIN calls[i].sql : calls[i].sql[k] \in Range(t)
               /\ calls[i].lockResult = Some(1) =>
                    ~\E k \in DOMAIN t : t[k].call = i /\ t[k].cmd # "sqlmigrate"
               /\ calls[i].lockResult = Some(0) =>
                    \A k \in DOMAIN calls[i].locks[1] : calls[i].locks[1][k] \in Range(t)
          /\ (updates[1].conclusion = "failure") <=> (mmResult[1] # 0)
          /\ updates[1].status \in {"sent", "ok"} => failed = <<>>
  /\ (Created /\ showResult = Some(0) /\ plan # <<>> /\ ~Malformed(plan)
        /\ ~SomeSqlmigrateFailed) =>
       (failed = <<>> \/ (failed = <<ApiError>> /\ updates[1].status = "failed"))

\* C8 witness: the lock command of the first of two migrations failed, the other
\* succeeded with output; the run ended with conclusion success and no setFailed.
C8_Witness ==
  /\ pc = "done" /\ TryUpdateIssued /\ updates[1].status = "ok" /\ Len(calls) = 2
  /\ calls[1].lockResult = Some(1) /\ calls[1].sql # <<>>
  /\ Truthy(calls[2].locks)
  /\ mmResult = Some(0) /\ failed = <<>>
  /\ github[checkRun[1]] = "success"

(***************************************************************************)
(* Properties of getUnappliedMigrations (SpecParse).                       *)
(***************************************************************************)
ParsedAsPlanned ==
  /\ pret.threw <=> Malformed(pplan)
  /\ ~pret.threw =>
       /\ pret.list = ExpectedUnapplied(pplan)
       /\ pret.has <=> (ExpectedUnapplied(pplan) # <<>>)

\* C6: for a successful showmigrations, the function returns exactly the
\* (appLabel, migrationName) pairs of the "[ ]" lines in plan order, the flag is
\* true iff that list is not empty, it throws iff some line fails the regex, and
\* an output without any line is "no unapplied migrations", not an error.
C6_Original ==
  (ppc = "done" /\ presult = 0) => ParsedAsPlanned

\* C6 without its last part: the same for every output of at least one line.
C6_NonEmptyOutput ==
  (ppc = "done" /\ presult = 0 /\ pplan # <<>>) => ParsedAsPlanned

\* C6, the failing case: the empty output is split into one empty line, which
\* does not match, and the function throws.
C6_EmptyOutputThrows ==
  (ppc = "done" /\ presult = 0 /\ pplan = <<>>) =>
    /\ pret.threw /\ pret.error = LineError(<<>>)

(***************************************************************************)
(* dump-database: the working tree, git and GitHub as run() sees them.     *)
(* Only the file at output-path matters.  committed: its version in HEAD;  *)
(* worktree: its version on disk; stash: the stash entries, newest first;  *)
(* remote: its version in the repository on GitHub.                        *)
(***************************************************************************)
Contents == {"v" \o ToString(k) : k \in 1..NContents}

\* git hash-object: the object id of a content
HashObject(c) == "blob:" \o c

\* base64 -i: the encoding of the file, with the newline the tool ends it with
Base64(c) == <<"base64:" \o c, "\n">>

\* the message of the Error exec.exec throws for a non-zero exit code
ExecError(tool, code) ==
  <<"The process '", tool, "' failed with exit code ", ToString(code)>>

\* run() calls createPullRequest; the file defines makePullRequest only
ReferenceError == <<"createPullRequest is not defined">>

\* git ls-files -mo <path> lists the path when it is untracked or modified
LsFilesLists(head, tree) ==
  \/ head = None /\ tree # None
  \/ head # None /\ tree # head

\* git stash -- <path>: exit code 1 when the path is not tracked (pathspec did not
\* match any file known to git); nothing to save when it is unchanged; otherwise
\* the change is saved and the committed version restored.
GitStash(head, tree, entries) ==
  IF head = None
  THEN [code |-> 1, tree |-> tree, stash |-> entries]
  ELSE IF tree = head
  THEN [code |-> 0, tree |-> tree, stash |-> entries]
  ELSE [code |-> 0, tree |-> head, stash |-> <<tree>> \o entries]

\* git stash pop: exit code 1 when there is no stash entry; otherwise the newest
\* entry is applied to the working tree and dropped.
GitStashPop(tree, entries) ==
  IF entries = <<>>
  THEN [code |-> 1, tree |-> tree, stash |-> entries]
  ELSE [code |-> 0, tree |-> Head(entries), stash |-> Tail(entries)]

\* GitHub accepts createOrUpdateFile without sha for a new file, and with the blob
\* sha of the current version for an existing one
GitHubAccepts(current, blobSha) ==
  \/ current = None /\ blobSha = None
  \/ current # None /\ blobSha = Some(HashObject(current[1]))

\* A fresh checkout: the file is committed and unchanged, or not in the repository
\* (then absent, or left untracked by an earlier step of the job).
InitDump ==
  /\ cmIdle /\ pIdle
  /\ dpc = "start"
  /\ committed \in {None} \cup {Some(c) : c \in Contents}
  /\ worktree \in (IF committed = None
                   THEN {None} \cup {Some(c) : c \in Contents}
                   ELSE {committed})
  /\ stash = <<>>
  /\ remote = committed
  /\ appliedMigrations = <<>>
  /\ dump = None /\ hasChanged = FALSE /\ sha = None /\ content = <<>>
  /\ uploads = <<>> /\ pulls = 0 /\ dfailed = <<>> /\ steps = <<>> /\ thrown = None

\* Mutant of DCatch: the catch block logs the error and does not call setFailed.
DCatchLogOnly(step, message) ==
  /\ dfailed' = dfailed
  /\ thrown' = Some([step |-> step, message |-> message])
  /\ dpc' = "done"

\* the catch block of run(): log, setFailed(error.message); run() returns
DCatch(step, message) ==
  /\ dfailed' = Append(dfailed, message)
  /\ thrown' = Some([step |-> step, message |-> message])
  /\ dpc' = "done"

\* run() starts: reads its inputs; applyMigrations spawns "manage.py migrate"
D_Start ==
  /\ dpc = "start"
  /\ steps' = Append(steps, "migrate")
  /\ dpc' = "migrate"
  /\ UNCHANGED <<appliedMigrations, committed, worktree, stash, remote, dump, hasChanged, sha, content,
                 uploads, pulls, dfailed, thrown, cmVars, pVars>>

\* what "manage.py migrate" prints: nothing to apply, or the migrations applied
MigrateOutputs == {<<"n", "\n">>, <<" ", "m", "\n">>}

\* migrate exits (exec.exec throws on a non-zero code): applyMigrations returns
\* stdout.trim(); dumpDatabase runs pg_dump
D_MigrateExit(code, out) ==
  /\ dpc = "migrate"
  /\ IF code # 0
     THEN /\ DCatch("migrate", ExecError("python", code))
          /\ UNCHANGED <<steps, appliedMigrations>>
     ELSE /\ appliedMigrations' = Trim(out)
          /\ steps' = Append(steps, "pg_dump")
          /\ dpc' = "pg_dump"
          /\ UNCHANGED <<dfailed, thrown>>
  /\ UNCHANGED <<committed, worktree, stash, remote, dump, hasChanged, sha, content,
                 uploads, pulls, cmVars, pVars>>

\* pg_dump exits: with code 0 it has written the dump c to output-path; then
\* git ls-files -mo is spawned.  (After a non-zero code nothing reads the file
\* any more; it is left as it was.)
D_PgDumpExit(code, c) ==
  /\ dpc = "pg_dump"
  /\ IF code # 0
     THEN /\ DCatch("pg_dump", ExecError("docker", code))
          /\ UNCHANGED <<steps, worktree, dump>>
     ELSE /\ worktree' = Some(c)
          /\ dump' = Some(c)
          /\ steps' = Append(steps, "ls-files")
          /\ dpc' = "ls_files"
          /\ UNCHANGED <<dfailed, thrown>>
  /\ UNCHANGED <<appliedMigrations, committed, stash, remote, hasChanged, sha, content, uploads, pulls,
                 cmVars, pVars>>

\* git ls-files exits: dumpDatabase returns lines.includes(outputPath); commitFile
\* starts with git stash -- <output-path>
D_LsFilesExit ==
  /\ dpc = "ls_files"
  /\ hasChanged' = LsFilesLists(committed, worktree)
  /\ steps' = Append(steps, "stash")
  /\ dpc' = "stash"
  /\ UNCHANGED <<appliedMigrations, committed, worktree, stash, remote, dump, sha, content, uploads,
                 pulls, dfailed, thrown, cmVars, pVars>>

\* git stash exits; then test -f <output-path> is spawned
D_StashExit ==
  /\ dpc = "stash"
  /\ LET r == GitStash(committed, worktree, stash)
     IN /\ worktree' = r.tree
        /\ stash' = r.stash
        /\ IF r.code # 0
           THEN /\ DCatch("stash", ExecError("git", r.code))
                /\ UNCHANGED steps
           ELSE /\ steps' = Append(steps, "test")
                /\ dpc' = "test"
                /\ UNCHANGED <<dfailed, thrown>>
  /\ UNCHANGED <<appliedMigrations, committed, remote, dump, hasChanged, sha, content, uploads, pulls,
                 cmVars, pVars>>

\* test -f exits (its code is ignored): git hash-object when the file exists,
\* git stash pop otherwise
D_TestExit ==
  /\ dpc = "test"
  /\ IF worktree # None
     THEN /\ steps' = Append(steps, "hash-object")
          /\ dpc' = "hash"
     ELSE /\ steps' = Append(steps, "stash pop")
          /\ dpc' = "pop"
  /\ UNCHANGED <<appliedMigrations, committed, worktree, stash, remote, dump, hasChanged, sha, content,
                 uploads, pulls, dfailed, thrown, cmVars, pVars>>

\* git hash-object exits: sha = lines[0]; then git stash pop is spawned
D_HashExit ==
  /\ dpc = "hash"
  /\ sha' = Some(HashObject(worktree[1]))
  /\ steps' = Append(steps, "stash pop")
  /\ dpc' = "pop"
  /\ UNCHANGED <<appliedMigrations, committed, worktree, stash, remote, dump, hasChanged, content,
                 uploads, pulls, dfailed, thrown, cmVars, pVars>>

\* git stash pop exits; then base64 -i <output-path> is spawned
D_PopExit ==
  /\ dpc = "pop"
  /\ LET r == GitStashPop(worktree, stash)
     IN /\ worktree' = r.tree
        /\ stash' = r.stash
        /\ IF r.code # 0
           THEN /\ DCatch("stash pop", ExecError("git", r.code))
                /\ UNCHANGED steps
           ELSE /\ steps' = Append(steps, "base64")
                /\ dpc' = "base64"
                /\ UNCHANGED <<dfailed, thrown>>
  /\ UNCHANGED <<appliedMigrations, committed, remote, dump, hasChanged, sha, content, uploads, pulls,
                 cmVars, pVars>>

\* the createOrUpdateFile request of commitFile
uploadRequest(blobSha, text) ==
  [sha |-> blobSha, content |-> Trim(text), status |-> "sent"]

\* base64 exits: content holds its output; createOrUpdateFile is sent
D_Base64Exit ==
  /\ dpc = "base64"
  /\ content' = Base64(worktree[1])
  /\ uploads' = Append(uploads, uploadRequest(sha, Base64(worktree[1])))
  /\ steps' = Append(steps, "createOrUpdateFile")
  /\ dpc' = "upload"
  /\ UNCHANGED <<appliedMigrations, committed, worktree, stash, remote, dump, hasChanged, sha, pulls,
                 dfailed, thrown, cmVars, pVars>>

\* after commitFile: if (hasChanged) await createPullRequest(...), which is a
\* ReferenceError
afterCommit(changed) ==
  IF changed
  THEN /\ steps' = Append(steps, "createPullRequest")
       /\ DCatch("createPullRequest", ReferenceError)
  ELSE /\ dpc' = "done"
       /\ UNCHANGED <<steps, dfailed, thrown>>

\* createOrUpdateFile answers: the file is committed on GitHub; commitFile returns
D_UploadOk ==
  /\ dpc = "upload"
  /\ GitHubAccepts(remote, uploads[Len(uploads)].sha)
  /\ remote' = dump
  /\ uploads' = [uploads EXCEPT ![Len(uploads)].status = "ok"]
  /\ afterCommit(hasChanged)
  /\ UNCHANGED <<appliedMigrations, committed, worktree, stash, dump, hasChanged, sha, content, pulls,
                 cmVars, pVars>>

\* createOrUpdateFile throws (sha refused, or the request failed)
D_UploadFail ==
  /\ dpc = "upload"
  /\ uploads' = [uploads EXCEPT ![Len(uploads)].status = "failed"]
  /\ DCatch("createOrUpdateFile", ApiError)
  /\ UNCHANGED <<appliedMigrations, committed, worktree, stash, remote, dump, hasChanged, sha, content,
                 pulls, steps, cmVars, pVars>>

NextDump ==
  \/ D_Start
  \/ \E code \in ExitCodes, out \in MigrateOutputs : D_MigrateExit(code, out)
  \/ \E code \in ExitCodes, c \in Contents : D_PgDumpExit(code, c)
  \/ D_LsFilesExit
  \/ D_StashExit
  \/ D_TestExit
  \/ D_HashExit
  \/ D_PopExit
  \/ D_Base64Exit
  \/ D_UploadOk
  \/ D_UploadFail

SpecDump == InitDump /\ [][NextDump]_vars

(***************************************************************************)
(* Properties of dump-database.                                            *)
(***************************************************************************)
StepOrder == <<"migrate", "pg_dump", "ls-files", "stash", "test", "hash-object",
               "stash pop", "base64", "createOrUpdateFile", "createPullRequest">>
Pos(step) == CHOOSE k \in DOMAIN StepOrder : StepOrder[k] = step

\* migrate and pg_dump have succeeded
Dumped == dump # None
\* the dump differs from the committed file, or the file is new
DumpChanged == Dumped /\ (committed = None \/ committed # dump)

\* C1, for a dump file that is tracked: when migrate and pg_dump succeed and the
\* dump differs from the committed file, so that git ls-files -mo lists it, the
\* run opens a pull request and is not marked failed.
C1_Original ==
  (dpc = "done" /\ Dumped /\ committed # None /\ committed # dump
     /\ uploads # <<>> /\ uploads[Len(uploads)].status = "ok") =>
    /\ pulls >= 1
    /\ dfailed = <<>>

\* C2: when migrate and pg_dump succeed and the dump equals the committed file,
\* the run creates no pull request and ends without setFailed; git stash and git
\* stash pop raise no error.
C2_Original ==
  (dpc = "done" /\ Dumped /\ committed = dump) =>
    /\ pulls = 0
    /\ dfailed = <<>>
    /\ thrown = None

\* C9: the steps start in the order migrate, pg_dump, git ls-files, commit of the
\* file (git stash .. createOrUpdateFile), pull request, each after the one
\* before it; when a step throws, it is the last step started, setFailed is
\* called exactly once, with that error's message, and run() returns; without a
\* throw setFailed is not called; after a failed migrate or pg_dump nothing was
\* written to GitHub.
C9_SequentialCatchAll ==
  /\ \A j, k \in DOMAIN steps : j < k => Pos(steps[j]) < Pos(steps[k])
  /\ \A k \in DOMAIN steps :
       \A before \in 1..(Pos(steps[k]) - 1) :
         StepOrder[before] # "hash-object" => StepOrder[before] \in Range(steps)
  /\ thrown # None =>
       /\ dpc = "done"
       /\ steps[Len(steps)] = thrown[1].step
       /\ dfailed = <<thrown[1].message>>
       /\ thrown[1].step \in {"migrate", "pg_dump"} =>
            /\ uploads = <<>> /\ pulls = 0 /\ remote = committed
  /\ thrown = None => dfailed = <<>>
  /\ (uploads # <<>> \/ pulls > 0 \/ remote # committed) => Dumped
  /\ dpc = "done" /\ dfailed = <<>> => thrown = None

\* C9 witness: pg_dump failed after a successful migrate: nothing later started.
C9_Witness ==
  /\ dpc = "done" /\ thrown # None /\ thrown[1].step = "pg_dump"
  /\ steps = <<"migrate", "pg_dump">>
  /\ dfailed = <<ExecError("docker", 1)>>

\* commitFile has been entered and left, by return or by throw
CommitFileLeft == "stash" \in Range(steps) /\ dpc = "done"

CommittedAsClaimed ==
  /\ uploads # <<>>
  /\ uploads[1].sha = (IF committed = None THEN None
                       ELSE Some(HashObject(committed[1])))
  /\ uploads[1].content = <<"base64:" \o dump[1]>>
  /\ worktree = dump
  /\ stash = <<>>

\* C10: whether the file was absent, new and untracked, or tracked and modified by
\* the dump, createOrUpdateFile is called with sha undefined iff the file was not
\* in the repository, otherwise with the object hash of the committed version;
\* the content is the base64 of the dump; afterwards the working tree holds the
\* dump and the stash has no entry of commitFile.
C10_Original ==
  (CommitFileLeft /\ DumpChanged) => CommittedAsClaimed

\* C10 for a tracked file modified by the dump, where it holds.
C10_TrackedModified ==
  (CommitFileLeft /\ DumpChanged /\ committed # None) => CommittedAsClaimed

\* C10, the failing case: for a file that is not tracked git stash exits with
\* code 1 and createOrUpdateFile is never called.
C10_UntrackedThrows ==
  (CommitFileLeft /\ committed = None) =>
    /\ uploads = <<>>
    /\ thrown = Some([step |-> "stash", message |-> ExecError("git", 1)])

\* Every run of dump-database that gets past pg_dump ends in setFailed.
DumpAlwaysFails == (dpc = "done" /\ Dumped) => dfailed # <<>>

=============================================================================
